---- MODULE Spec2Model ----
(***************************************************************************)
(* Travel planner: the LangGraph workflow of orchestrator.py, the five     *)
(* agent nodes and the Groq model fallback of llms/llm_provider.py.        *)
(*                                                                         *)
(* A text is a sequence of segments (an f-string is the sequence of its    *)
(* literal and interpolated parts); the empty text is <<>>.  The record    *)
(* (TravelState, total=False) is a function whose domain is the set of     *)
(* keys present.                                                           *)
(***************************************************************************)
EXTENDS Naturals, Sequences, FiniteSets

VARIABLES
    state,      \* the TravelState record threaded through the graph
    cur,        \* the node the executor is at (or END)
    pc,         \* position inside run_travel_planning / the current node
    model_idx,  \* get_groq_llm_with_fallback: position of the for loop
    probe,      \* environment: outcome of constructing+probing each candidate
    probes,     \* candidates attempted in the current acquisition, with outcome
    llm,        \* the handle get_llm returned to the current node (NoLLM: none)
    error,      \* the exception that escaped run_travel_planning ("none": none)
    visited,    \* history: nodes invoked, in order
    writes,     \* history: <<node, field>> for every field a node returned
    last_model, \* history: candidate the latest successful acquisition returned (0: none)
    last_call,  \* history: what the collaborators did in the node call that ended last
    initial     \* history: the record run_travel_planning was called with

vars == <<state, cur, pc, model_idx, probe, probes, llm, error, visited,
          writes, last_model, last_call, initial>>

(***************************************************************************)
(* state/travel_state.py                                                   *)
(***************************************************************************)
InputFields ==
    {"origin_country", "destination", "budget_type", "trip_type", "num_people",
     "start_date", "end_date", "additional_comments"}

ControlField == "include_activities"

DerivedFields ==
    {"visa_info", "weather_forecast", "itinerary", "suggested_hotels",
     "suggested_activities"}

\* Python values of the Optional[bool] control field.
PyBools == {"True", "False", "None"}

Destinations == {"Lisbon", "Null Island"}

\* The record app.py builds from the form (the spec's end-to-end scenario),
\* with or without the control key.
InputRecord(dest) ==
    [k \in InputFields |->
        CASE k = "origin_country"      -> "United States"
          [] k = "destination"         -> dest
          [] k = "budget_type"         -> "mid-range"
          [] k = "trip_type"           -> "cultural"
          [] k = "num_people"          -> 2
          [] k = "start_date"          -> "2025-06-01"
          [] k = "end_date"            -> "2025-06-05"
          [] k = "additional_comments" -> "museums, local food"]

WithFlag(rec, flag) ==
    [k \in DOMAIN rec \cup {ControlField} |->
        IF k = ControlField THEN flag ELSE rec[k]]

InitialRecords ==
    {InputRecord(d) : d \in Destinations}
        \cup {WithFlag(InputRecord(d), f) : d \in Destinations, f \in PyBools}

\* dict.get(key, default)
Get(rec, key, default) == IF key \in DOMAIN rec THEN rec[key] ELSE default

\* Python truthiness of a control-field value.
Truthy(v) == v = "True"

(***************************************************************************)
(* orchestrator.py: the graph                                              *)
(***************************************************************************)
END == "__end__"

Nodes ==
    {"visa_agent", "weather_agent", "itinerary_builder", "hotel_recommender",
     "activity_finder"}

EntryPoint == "visa_agent"

\* Mutant: the router ignores the control field.
always_find_activities(st) == "activity_finder"

\* Mutant: the router also looks at another field of the record.
should_find_activities_reads_destination(st) ==
    IF Truthy(Get(st, ControlField, "False")) \/ st["destination"] = "Null Island"
        THEN "activity_finder"
        ELSE END

\* Mutant: the test is `is not False`, with True as the default.
should_find_activities_unless_false(st) ==
    IF Get(st, ControlField, "True") # "False" THEN "activity_finder" ELSE END

should_find_activities(st) ==
    IF Truthy(Get(st, ControlField, "False")) THEN "activity_finder" ELSE END

\* Mutant: visa_agent is wired to itinerary_builder, weather_agent to nothing new.
successor_skips_weather(node, st) ==
    CASE node = "visa_agent"        -> "itinerary_builder"
      [] node = "weather_agent"     -> "itinerary_builder"
      [] node = "itinerary_builder" -> "hotel_recommender"
      [] node = "hotel_recommender" -> should_find_activities(st)
      [] node = "activity_finder"   -> END

\* Mutant: hotel_recommender wired before itinerary_builder.
successor_hotel_first(node, st) ==
    CASE node = "visa_agent"        -> "weather_agent"
      [] node = "weather_agent"     -> "hotel_recommender"
      [] node = "hotel_recommender" -> "itinerary_builder"
      [] node = "itinerary_builder" -> should_find_activities(st)
      [] node = "activity_finder"   -> END

\* Mutant: an edge from activity_finder back to the entry point.
successor_cycle(node, st) ==
    CASE node = "visa_agent"        -> "weather_agent"
      [] node = "weather_agent"     -> "itinerary_builder"
      [] node = "itinerary_builder" -> "hotel_recommender"
      [] node = "hotel_recommender" -> should_find_activities(st)
      [] node = "activity_finder"   -> "visa_agent"

\* add_edge / add_conditional_edges
successor(node, st) ==
    CASE node = "visa_agent"        -> "weather_agent"
      [] node = "weather_agent"     -> "itinerary_builder"
      [] node = "itinerary_builder" -> "hotel_recommender"
      [] node = "hotel_recommender" -> should_find_activities(st)
      [] node = "activity_finder"   -> END

\* Mutant: the returned mapping replaces the record.
merge_replaces(st, update) == update

\* The executor applies a node's returned mapping to the record: a returned key
\* overwrites, every other key keeps its value.
merge(st, update) ==
    [k \in DOMAIN st \cup DOMAIN update |->
        IF k \in DOMAIN update THEN update[k] ELSE st[k]]

(***************************************************************************)
(* llms/llm_provider.py                                                    *)
(***************************************************************************)
\* The defaults of GROQ_MODEL, GROQ_MODEL_V2, GROQ_MODEL_V3, in declaration order.
model_priority == <<"openai/gpt-oss-120b", "llama-3.1-8b-instant", "gemma2-9b-it">>

Candidates == 1..Len(model_priority)

\* What ChatGroq(...) followed by llm.invoke("Say hello!") does for a candidate:
\* succeeds, raises groq.RateLimitError, or raises any other Exception.
ProbeOutcomes == {"ok", "RateLimitError", "Exception"}

ProbePatterns == [Candidates -> ProbeOutcomes]

NoLLM == [model |-> "none", temperature |-> 0]

\* No loop is running / no candidate: index 0 is not in Candidates.
NoCandidate == 0

\* Outside an acquisition no candidate has an outcome.
NotProbed == [c \in Candidates |-> "unprobed"]

\* The temperature each node passes to get_llm, in tenths.
Temperature(node) ==
    CASE node = "visa_agent"        -> 3
      [] node = "weather_agent"     -> 4
      [] node = "itinerary_builder" -> 7
      [] node = "hotel_recommender" -> 5
      [] node = "activity_finder"   -> 7

\* Mutant: the handle is built for the head of the list, not for candidate i.
ChatGroq_head(i, temperature) ==
    [model |-> model_priority[1], temperature |-> temperature]

ChatGroq(i, temperature) == [model |-> model_priority[i], temperature |-> temperature]

\* Mutant: the loop resumes at the candidate that worked last time.
FirstCandidate_sticky == IF last_model = 0 THEN 1 ELSE last_model

\* The for loop starts at the head of model_priority on every call.
FirstCandidate == 1

\* Mutant: the loop skips a candidate after a failure.
NextCandidate_skips(i) == i + 2

NextCandidate(i) == i + 1

\* Mutant: the loop stops one candidate short.
Exhausted_early(i) == i >= Len(model_priority)

Exhausted(i) == i > Len(model_priority)

\* Mutant: the rate-limit handler falls through to `return llm`.
AfterProbe_rate_limit_returns(outcome) ==
    CASE outcome = "ok"             -> "return"
      [] outcome = "RateLimitError" -> "return"
      [] outcome = "Exception"      -> "continue"

\* Mutant: only RateLimitError is caught; any other exception leaves the call.
AfterProbe_exception_escapes(outcome) ==
    CASE outcome = "ok"             -> "return"
      [] outcome = "RateLimitError" -> "continue"
      [] outcome = "Exception"      -> "raise"

\* The try/except of the loop body: what the loop does after a probe outcome.
AfterProbe(outcome) ==
    CASE outcome = "ok"             -> "return"
      [] outcome = "RateLimitError" -> "continue"
      [] outcome = "Exception"      -> "continue"

(***************************************************************************)
(* agents: each node as a function of the record, the handle and the       *)
(* outcomes of the collaborators it calls.  A result is a returned mapping *)
(* or an exception that escapes the node.                                  *)
(***************************************************************************)
Return(update) == [kind |-> "return", update |-> update, error |-> "none"]

Raise(e) == [kind |-> "raise", update |-> [k \in {} |-> <<>>], error |-> e]

\* llm.invoke(messages): a reply (whose content may be empty) or an exception.
Replies == {<<"LLM reply">>, <<>>}

GenOutcomes ==
    {[ok |-> TRUE, content |-> r] : r \in Replies}
        \cup {[ok |-> FALSE, content |-> <<>>]}

visa_agent(st, gen) ==
    IF gen.ok THEN Return([visa_info |-> gen.content]) ELSE Raise("InvokeError")

itinerary_builder(st, gen) ==
    IF gen.ok THEN Return([itinerary |-> gen.content]) ELSE Raise("InvokeError")

\* Mutant: the return statement copied from itinerary_builder.
activity_finder_writes_itinerary(st, gen) ==
    IF gen.ok THEN Return([itinerary |-> gen.content]) ELSE Raise("InvokeError")

activity_finder(st, gen) ==
    IF gen.ok
        THEN Return([suggested_activities |-> gen.content])
        ELSE Raise("InvokeError")

\* An Optional[float]: None, or a number (degrees, rounded).
None == [isNone |-> TRUE, val |-> 0]

Float(x) == [isNone |-> FALSE, val |-> x]

\* Python's `not x` for an Optional[float].
Not(x) == x.isNone \/ x.val = 0

\* The geocoding request: an exception, a body without results, or a first result.
GeoResponses ==
    {[kind |-> "error", lat |-> 0, lon |-> 0],
     [kind |-> "no_results", lat |-> 0, lon |-> 0]}
        \cup {[kind |-> "result", lat |-> a, lon |-> b] : a \in {0, 38}, b \in {0, 9}}

get_coordinates(resp) ==
    IF resp.kind = "result"
        THEN [lat |-> Float(resp.lat), lon |-> Float(resp.lon)]
        ELSE [lat |-> None, lon |-> None]

\* The weather request: an exception, an empty body, a body without daily data,
\* or a body with daily data.
WeatherResponses == {"error", "empty", "no_daily", "daily"}

\* get_weather_data returns {} on an exception, else the body.
get_weather_data(resp) ==
    [empty |-> resp \in {"error", "empty"}, daily |-> resp = "daily"]

\* Mutant: get_coordinates does not catch the request's exception.
weather_agent_geocoding_uncaught(st, geo, wresp, gen) ==
    LET destination == st["destination"]
        c == get_coordinates(geo)
        weather_data == get_weather_data(wresp)
    IN  IF geo.kind = "error"
            THEN Raise("RequestException")
        ELSE IF Not(c.lat) \/ Not(c.lon)
            THEN Return([weather_forecast |->
                    <<"Unable to get weather data for ", destination,
                      ". Please check the destination name.">>])
        ELSE IF weather_data.empty
            THEN Return([weather_forecast |->
                    <<"Weather data temporarily unavailable for ", destination,
                      ". Please try again later.">>])
        ELSE IF ~weather_data.daily
            THEN Return([weather_forecast |->
                    <<"No weather data available for the selected dates in ",
                      destination, ".">>])
        ELSE IF gen.ok
            THEN Return([weather_forecast |-> gen.content])
        ELSE Return([weather_forecast |->
                    <<"Weather analysis temporarily unavailable. Raw data available for ",
                      destination, " from ", st["start_date"], " to ",
                      st["end_date"], ".">>])

\* Mutant: the model is invoked before the lookups, outside the try block.
weather_agent_llm_first(st, geo, wresp, gen) ==
    LET destination == st["destination"]
        c == get_coordinates(geo)
        weather_data == get_weather_data(wresp)
    IN  IF ~gen.ok
            THEN Raise("InvokeError")
        ELSE IF Not(c.lat) \/ Not(c.lon)
            THEN Return([weather_forecast |->
                    <<"Unable to get weather data for ", destination,
                      ". Please check the destination name.">>])
        ELSE IF weather_data.empty
            THEN Return([weather_forecast |->
                    <<"Weather data temporarily unavailable for ", destination,
                      ". Please try again later.">>])
        ELSE IF ~weather_data.daily
            THEN Return([weather_forecast |->
                    <<"No weather data available for the selected dates in ",
                      destination, ".">>])
        ELSE Return([weather_forecast |-> gen.content])

weather_agent(st, geo, wresp, gen) ==
    LET destination == st["destination"]
        c == get_coordinates(geo)
        weather_data == get_weather_data(wresp)
    IN  IF Not(c.lat) \/ Not(c.lon)
            THEN Return([weather_forecast |->
                    <<"Unable to get weather data for ", destination,
                      ". Please check the destination name.">>])
        ELSE IF weather_data.empty
            THEN Return([weather_forecast |->
                    <<"Weather data temporarily unavailable for ", destination,
                      ". Please try again later.">>])
        ELSE IF ~weather_data.daily
            THEN Return([weather_forecast |->
                    <<"No weather data available for the selected dates in ",
                      destination, ".">>])
        ELSE IF gen.ok
            THEN Return([weather_forecast |-> gen.content])
        ELSE Return([weather_forecast |->
                    <<"Weather analysis temporarily unavailable. Raw data available for ",
                      destination, " from ", st["start_date"], " to ",
                      st["end_date"], ".">>])

\* Mutant: the failure is reported in the record's error field.
hotel_client_failed_sets_error ==
    Return([error |->
        <<"Unable to fetch hotel recommendations. Please check API credentials.">>])

\* amadeus Client(...) failing: hotel_recommender returns before get_llm.
hotel_client_failed ==
    Return([suggested_hotels |->
        <<"Unable to fetch hotel recommendations. Please check API credentials.">>])

\* The hotel-listing request: an exception, an empty list, or hotels.
HotelResponses == {"error", "empty", "hotels"}

\* fetch_hotels_for_location returns [] on an exception, else the list.
fetch_hotels_for_location(resp) == IF resp = "hotels" THEN <<"hotel">> ELSE <<>>

\* Mutant: llm.invoke outside the try block, as in visa_agent.
hotel_recommender_unguarded(st, hresp, gen) ==
    LET hotel_data == fetch_hotels_for_location(hresp)
    IN  IF gen.ok
            THEN Return([suggested_hotels |-> gen.content])
            ELSE Raise("InvokeError")

hotel_recommender(st, hresp, gen) ==
    LET hotel_data == fetch_hotels_for_location(hresp)
    IN  IF gen.ok
            THEN Return([suggested_hotels |-> gen.content])
            ELSE Return([suggested_hotels |->
                    <<"Hotel recommendations temporarily unavailable. Please try again later. (Error: ",
                      "InvokeError", ")">>])

\* The keys of the record each node's function reads (state[...], state.get).
visa_agent_reads == {"origin_country", "destination"}

weather_agent_reads == {"destination", "start_date", "end_date", "trip_type"}

itinerary_builder_reads ==
    {"destination", "budget_type", "trip_type", "num_people", "start_date",
     "end_date", "additional_comments"}

\* Read after the Amadeus client was constructed, before get_llm.
hotel_recommender_reads ==
    {"destination", "budget_type", "trip_type", "num_people", "start_date",
     "end_date", "itinerary"}

activity_finder_reads ==
    {"destination", "budget_type", "trip_type", "num_people", "start_date",
     "end_date", "additional_comments"}

Reads(node) ==
    CASE node = "visa_agent"        -> visa_agent_reads
      [] node = "weather_agent"     -> weather_agent_reads
      [] node = "itinerary_builder" -> itinerary_builder_reads
      [] node = "hotel_recommender" -> hotel_recommender_reads
      [] node = "activity_finder"   -> activity_finder_reads

\* The collaborators' outcomes of one node call; "none" where the node has no
\* such collaborator, "no_client" where the Amadeus client could not be built.
NoGeo == [kind |-> "none", lat |-> 0, lon |-> 0]

NoGen == [ok |-> FALSE, content |-> <<>>]

Call(node, geo, wresp, hresp, gen) ==
    [node |-> node, geo |-> geo, wresp |-> wresp, hresp |-> hresp, gen |-> gen]

NoCall == Call("none", NoGeo, "none", "none", NoGen)

(***************************************************************************)
(* The state machine                                                       *)
(***************************************************************************)
Init ==
    /\ state \in InitialRecords
    /\ initial = state
    /\ cur = EntryPoint
    /\ pc = "idle"
    /\ model_idx = NoCandidate
    /\ probe = NotProbed
    /\ probes = <<>>
    /\ llm = NoLLM
    /\ error = "none"
    /\ visited = <<>>
    /\ writes = <<>>
    /\ last_model = NoCandidate
    /\ last_call = NoCall

\* run_travel_planning: compile the graph and start at its entry point.
run_travel_planning ==
    /\ pc = "idle"
    /\ cur' = EntryPoint
    /\ pc' = "enter"
    /\ UNCHANGED <<state, model_idx, probe, probes, llm, error, visited, writes,
                   last_model, last_call, initial>>

\* The executor after a node returned `update`: merge, then follow the edge.
\* The frames of the node and of its acquisition are gone.
NodeReturns(update) ==
    /\ state' = merge(state, update)
    /\ writes' = Append(writes, [node |-> cur, fields |-> DOMAIN update])
    /\ cur' = successor(cur, state')
    /\ pc' = IF cur' = END THEN "done" ELSE "enter"
    /\ llm' = NoLLM
    /\ model_idx' = NoCandidate
    /\ probe' = NotProbed
    /\ probes' = <<>>
    /\ UNCHANGED error

\* Mutant: the executor catches the exception and follows the node's edge.
NodeRaises_caught(e) ==
    /\ error' = e
    /\ cur' = successor(cur, state)
    /\ pc' = IF cur' = END THEN "done" ELSE "enter"
    /\ UNCHANGED <<state, writes, llm, model_idx, probe, probes>>

\* An exception escaping the node: the executor does not catch it.
NodeRaises(e) ==
    /\ error' = e
    /\ pc' = "raised"
    /\ UNCHANGED <<state, writes, cur, llm, model_idx, probe, probes>>

\* The executor calls the current node's function.
invoke_node ==
    /\ pc = "enter"
    /\ cur \in Nodes
    /\ visited' = Append(visited, cur)
    /\ pc' = IF cur = "hotel_recommender" THEN "client" ELSE "get_llm"
    /\ last_call' = NoCall
    /\ UNCHANGED <<state, cur, model_idx, probe, probes, llm, error, writes,
                   last_model, initial>>

\* hotel_recommender, before get_llm: the Amadeus client is constructed; a
\* failure returns the credentials placeholder.
amadeus_client ==
    /\ pc = "client"
    /\ \E ok \in BOOLEAN :
        IF ok
            THEN /\ pc' = "get_llm"
                 /\ UNCHANGED <<state, cur, llm, error, writes, model_idx, probe,
                                probes, last_call>>
            ELSE /\ NodeReturns(hotel_client_failed.update)
                 /\ last_call' = Call(cur, NoGeo, "none", "no_client", NoGen)
    /\ UNCHANGED <<visited, last_model, initial>>

\* get_llm(provider="groq") -> get_groq_llm_with_fallback: the loop starts.
get_llm ==
    /\ pc = "get_llm"
    /\ model_idx' = FirstCandidate
    /\ probes' = <<>>
    /\ probe' \in ProbePatterns
    /\ pc' = "probe"
    /\ UNCHANGED <<state, cur, llm, error, visited, writes, last_model, last_call,
                   initial>>

\* One iteration of the loop: construct the candidate and probe it.
try_candidate ==
    /\ pc = "probe"
    /\ ~Exhausted(model_idx)
    /\ probes' = Append(probes, [candidate |-> model_idx, outcome |-> probe[model_idx]])
    /\ CASE AfterProbe(probe[model_idx]) = "return" ->
               /\ llm' = ChatGroq(model_idx, Temperature(cur))
               /\ last_model' = model_idx
               /\ pc' = "body"
               /\ UNCHANGED <<model_idx, error>>
         [] AfterProbe(probe[model_idx]) = "continue" ->
               /\ model_idx' = NextCandidate(model_idx)
               /\ UNCHANGED <<llm, last_model, pc, error>>
         [] OTHER ->  \* an exception no except clause matches leaves the call
               /\ error' = probe[model_idx]
               /\ pc' = "raised"
               /\ UNCHANGED <<llm, last_model, model_idx>>
    /\ UNCHANGED <<state, cur, probe, visited, writes, last_call, initial>>

\* The loop ran off the list: RuntimeError, which no node and no executor catches.
raise_exhausted ==
    /\ pc = "probe"
    /\ Exhausted(model_idx)
    /\ NodeRaises("RuntimeError")
    /\ UNCHANGED <<visited, last_model, last_call, initial>>

\* The executor's handling of what the node's function did.
NodeEnds(r) == IF r.kind = "return" THEN NodeReturns(r.update) ELSE NodeRaises(r.error)

\* The rest of each node's function once get_llm returned, with the outcomes of
\* the collaborators the node calls.
call_visa_agent ==
    /\ pc = "body"
    /\ cur = "visa_agent"
    /\ \E gen \in GenOutcomes :
        /\ NodeEnds(visa_agent(state, gen))
        /\ last_call' = Call(cur, NoGeo, "none", "none", gen)
    /\ UNCHANGED <<visited, last_model, initial>>

call_weather_agent ==
    /\ pc = "body"
    /\ cur = "weather_agent"
    /\ \E geo \in GeoResponses, wresp \in WeatherResponses, gen \in GenOutcomes :
        /\ NodeEnds(weather_agent(state, geo, wresp, gen))
        /\ last_call' = Call(cur, geo, wresp, "none", gen)
    /\ UNCHANGED <<visited, last_model, initial>>

call_itinerary_builder ==
    /\ pc = "body"
    /\ cur = "itinerary_builder"
    /\ \E gen \in GenOutcomes :
        /\ NodeEnds(itinerary_builder(state, gen))
        /\ last_call' = Call(cur, NoGeo, "none", "none", gen)
    /\ UNCHANGED <<visited, last_model, initial>>

call_hotel_recommender ==
    /\ pc = "body"
    /\ cur = "hotel_recommender"
    /\ \E hresp \in HotelResponses, gen \in GenOutcomes :
        /\ NodeEnds(hotel_recommender(state, hresp, gen))
        /\ last_call' = Call(cur, NoGeo, "none", hresp, gen)
    /\ UNCHANGED <<visited, last_model, initial>>

call_activity_finder ==
    /\ pc = "body"
    /\ cur = "activity_finder"
    /\ \E gen \in GenOutcomes :
        /\ NodeEnds(activity_finder(state, gen))
        /\ last_call' = Call(cur, NoGeo, "none", "none", gen)
    /\ UNCHANGED <<visited, last_model, initial>>

Next ==
    \/ run_travel_planning
    \/ invoke_node
    \/ amadeus_client
    \/ get_llm
    \/ try_candidate
    \/ raise_exhausted
    \/ call_visa_agent
    \/ call_weather_agent
    \/ call_itinerary_builder
    \/ call_hotel_recommender
    \/ call_activity_finder

Spec == Init /\ [][Next]_vars

\* app.invoke is a sequential loop in one thread: a step that can be taken is
\* taken (a call of a collaborator either returns or raises).
FairSpec == Spec /\ WF_vars(Next)

(***************************************************************************)
(* Properties                                                              *)
(***************************************************************************)
IsPrefix(s, t) == Len(s) <= Len(t) /\ \A i \in 1..Len(s) : s[i] = t[i]

MainPath == <<"visa_agent", "weather_agent", "itinerary_builder", "hotel_recommender">>

FullPath == Append(MainPath, "activity_finder")

\* The control flag of the record the run was started with ("absent": no key).
InitialFlag == Get(initial, ControlField, "absent")

\* Positions inside a node's function (the node has been called, not yet returned).
InNode == {"client", "get_llm", "probe", "body"}

\* C1: with include_activities false, the nodes executed are always a prefix of
\* visa_agent, weather_agent, itinerary_builder, hotel_recommender (so in that
\* order, each once, never activity_finder); when hotel_recommender has returned
\* the run is at Terminal, and a run that returned executed exactly these four.
C1_FlagFalsePath ==
    InitialFlag = "False" =>
        /\ IsPrefix(visited, MainPath)
        /\ (pc = "enter" =>
                /\ Len(visited) < Len(MainPath)
                /\ cur = MainPath[Len(visited) + 1])
        /\ (visited = MainPath /\ pc \notin InNode /\ pc # "raised" => pc = "done" /\ cur = END)
        /\ (pc = "done" => visited = MainPath)

C1_Witness ==
    /\ InitialFlag = "False"
    /\ pc = "done"
    /\ visited = MainPath

\* C2: with include_activities true, the nodes executed are always a prefix of
\* the five nodes in the fixed order; activity_finder is the last, Terminal is
\* reached as soon as it returns, and a run that returned executed all five.
C2_FlagTruePath ==
    InitialFlag = "True" =>
        /\ IsPrefix(visited, FullPath)
        /\ (pc = "enter" =>
                /\ Len(visited) < Len(FullPath)
                /\ cur = FullPath[Len(visited) + 1])
        /\ (visited = FullPath /\ pc \notin InNode /\ pc # "raised" => pc = "done" /\ cur = END)
        /\ (pc = "done" =>
                /\ visited = FullPath
                /\ writes[Len(writes)].node = "activity_finder")

C2_Witness ==
    /\ InitialFlag = "True"
    /\ pc = "done"
    /\ visited = FullPath
    /\ cur = END

FinalFields == {"visa_info", "weather_forecast", "itinerary", "suggested_hotels"}

\* C3: a run that returned has non-empty visa_info, weather_forecast, itinerary
\* and suggested_hotels, and has suggested_activities iff the initial flag was
\* true.
C3_FinalRecordNonEmpty ==
    pc = "done" =>
        /\ \A f \in FinalFields : f \in DOMAIN state /\ state[f] # <<>>
        /\ ("suggested_activities" \in DOMAIN state <=> InitialFlag = "True")

\* C3, the part the code keeps: the four fields are present, and
\* suggested_activities is present iff the initial flag was true.
C3_FinalRecordFields ==
    pc = "done" =>
        /\ FinalFields \subseteq DOMAIN state
        /\ ("suggested_activities" \in DOMAIN state <=> InitialFlag = "True")

\* C4: the only exception that escapes a node is the exhaustion error of the
\* model acquisition.
C4_OnlyExhaustionEscapes == pc = "raised" => error = "RuntimeError"

\* The acquisition in progress or just finished has an outcome pattern.
Acquiring == probe # NotProbed

SomeOk == \E i \in Candidates : probe[i] = "ok"

\* The first candidate, in list order, whose probe succeeds.
FirstOk == CHOOSE i \in Candidates : probe[i] = "ok" /\ \A j \in 1..(i - 1) : probe[j] # "ok"

Probed == {probes[k].candidate : k \in DOMAIN probes}

\* C5: when some candidate's probe succeeds, the acquisition never raises, no
\* candidate after the first succeeding one is constructed or probed, and the
\* handle returned is that candidate's.
C5_FirstSuccessReturned ==
    Acquiring /\ SomeOk =>
        /\ \A c \in Probed : c <= FirstOk
        /\ ~(pc = "raised" /\ llm = NoLLM)
        /\ (pc = "body" =>
                /\ llm.model = model_priority[FirstOk]
                /\ Probed = 1..FirstOk)

C5_Witness ==
    /\ pc = "body"
    /\ probe = <<"RateLimitError", "RateLimitError", "ok">>
    /\ llm.model = model_priority[3]

AllRateLimited == [c \in Candidates |-> "RateLimitError"]

\* C6: when every candidate's probe raises a rate-limit error, no handle is
\* returned, and the acquisition ends in the exhaustion error after the last
\* candidate.
C6_AllRateLimitedRaises ==
    probe = AllRateLimited =>
        /\ llm = NoLLM
        /\ pc \in {"probe", "raised"}
        /\ (Exhausted(model_idx) <=> Probed = Candidates)
        /\ (pc = "raised" => error = "RuntimeError" /\ Probed = Candidates)

C6_Witness ==
    /\ probe = AllRateLimited
    /\ pc = "raised"
    /\ error = "RuntimeError"
    /\ llm = NoLLM

\* C7: candidates are attempted in declaration order: the k-th attempt of an
\* acquisition is candidate k, and every attempt before the latest one failed.
C7_DeclarationOrder ==
    /\ \A k \in DOMAIN probes : probes[k].candidate = k
    /\ \A k \in DOMAIN probes : k < Len(probes) => probes[k].outcome # "ok"
    /\ (pc = "probe" => model_idx = Len(probes) + 1)

C7_Witness ==
    /\ Len(probes) = Len(model_priority)
    /\ probes[1].outcome = "Exception"
    /\ probes[2].outcome = "RateLimitError"
    /\ probes[3].outcome = "ok"
    /\ pc = "body"

\* A step of the loop on a candidate whose construction or probe fails with `e`.
ProbeFails(e) == pc = "probe" /\ ~Exhausted(model_idx) /\ probe[model_idx] = e

\* What the loop does after a rate-limit error: on to the next candidate, with
\* nothing raised and no handle.
Advances ==
    /\ pc' = "probe"
    /\ model_idx' = model_idx + 1
    /\ error' = "none"
    /\ llm' = NoLLM

\* C8: a construction or probe error that is not a rate-limit error makes the
\* loop advance exactly as a rate-limit error does, and an acquisition raises
\* nothing but the exhaustion error.
C8_OtherErrorsAdvance ==
    /\ [][(ProbeFails("Exception") => Advances)
            /\ (ProbeFails("RateLimitError") => Advances)
            /\ (pc \in {"get_llm", "probe"} /\ pc' = "raised" => error' = "RuntimeError")]_vars

C8_Witness ==
    /\ pc = "body"
    /\ Len(probes) = 2
    /\ probes[1].outcome = "Exception"
    /\ llm.model = model_priority[2]

\* C9: every acquisition starts at the first candidate, whatever candidate the
\* earlier acquisitions of the run returned.
C9_NoMemory ==
    /\ [][(pc = "get_llm" /\ pc' # "get_llm" =>
                pc' = "probe" /\ model_idx' = 1 /\ probes' = <<>>)
            /\ (pc = "probe" /\ probes = <<>> /\ probes' # <<>> =>
                probes'[1].candidate = 1)]_vars

C9_Witness ==
    /\ last_model \in {2, 3}
    /\ cur # EntryPoint
    /\ pc = "probe"
    /\ Len(probes) = 1
    /\ probes[1].candidate = 1

AllFailed ==
    /\ Len(probes) = Len(model_priority)
    /\ \A k \in DOMAIN probes : probes[k].outcome # "ok"

\* C10: in one acquisition no candidate is attempted twice and there are never
\* more probes than candidates; the exhaustion error is raised exactly when
\* every candidate has been attempted once and has failed.
C10_AtMostOnce ==
    /\ Len(probes) <= Len(model_priority)
    /\ Cardinality(Probed) = Len(probes)
    /\ (pc = "raised" /\ error = "RuntimeError" => AllFailed /\ Probed = Candidates)
    /\ (AllFailed => pc \in {"probe", "raised"} /\ Exhausted(model_idx))
    /\ (AllFailed /\ pc = "raised" => error = "RuntimeError")

C10_Witness ==
    /\ pc = "raised"
    /\ error = "RuntimeError"
    /\ Len(probes) = Len(model_priority)
    /\ probes[2].outcome = "Exception"

\* A text that is not a reply of the model: a message the node itself wrote.
IsPlaceholder(text) == text \notin Replies

Names(text, word) == \E i \in DOMAIN text : text[i] = word

\* Geocoding unreachable or without result, or the weather fetch failing,
\* returning nothing or returning no daily data.
LookupFails(geo, wresp) ==
    \/ geo.kind \in {"error", "no_results"}
    \/ geo.kind = "result" /\ wresp \in {"error", "empty", "no_daily"}

WeatherLookupFailed ==
    /\ last_call.node = "weather_agent"
    /\ LookupFails(last_call.geo, last_call.wresp)

WeatherDegraded ==
    /\ "weather_forecast" \in DOMAIN state
    /\ IsPlaceholder(state["weather_forecast"])

\* C11: a weather_agent call whose lookup failed has returned, not raised, with
\* a placeholder in weather_forecast that names the destination, and the
\* executor is about to call itinerary_builder; with a placeholder in
\* weather_forecast the run still goes through itinerary_builder and
\* hotel_recommender, and a run that returns holds their fields.
C11_WeatherLookupFailure ==
    /\ WeatherLookupFailed =>
            /\ pc = "enter" /\ cur = "itinerary_builder" /\ error = "none"
            /\ WeatherDegraded
            /\ Names(state["weather_forecast"], initial["destination"])
            /\ writes[Len(writes)] = [node |-> "weather_agent", fields |-> {"weather_forecast"}]
    /\ WeatherDegraded =>
            /\ IsPrefix(visited, FullPath)
            /\ (pc = "done" =>
                    /\ {"itinerary", "suggested_hotels"} \subseteq DOMAIN state
                    /\ \E i, j \in DOMAIN writes :
                            /\ writes[i].node = "itinerary_builder"
                            /\ writes[j].node = "hotel_recommender")

C11_Witness ==
    /\ pc = "done"
    /\ state["weather_forecast"] =
            <<"Weather data temporarily unavailable for ", "Lisbon",
              ". Please try again later.">>
    /\ state["itinerary"] = <<"LLM reply">>
    /\ state["suggested_hotels"] = <<"LLM reply">>

\* The records the router is compared on: every initial record and the record
\* of the run as it is now (with the derived fields written so far).
RouterRecords == InitialRecords \cup {state}

Flag(rec) == Get(rec, ControlField, "absent")

\* The step in which hotel_recommender returns and the router is evaluated.
RouterStep ==
    /\ cur = "hotel_recommender"
    /\ pc \in {"client", "body"}
    /\ pc' \in {"enter", "done"}

\* C12: the router returns activity_finder or END; two records that agree on
\* include_activities get the same destination (so does the same record,
\* evaluated again); the executor goes where the router says; and the step
\* that evaluates it changes no field of the record but the one
\* hotel_recommender returned.
C12_RouterPure ==
    /\ [](/\ \A r \in RouterRecords :
                should_find_activities(r) \in {"activity_finder", END}
          /\ \A r1, r2 \in RouterRecords :
                Flag(r1) = Flag(r2) =>
                    should_find_activities(r1) = should_find_activities(r2)
          /\ (Len(writes) = Len(MainPath) /\ pc \in {"enter", "done"} =>
                cur = should_find_activities(initial)))
    /\ [][RouterStep =>
            /\ cur' = should_find_activities(state)
            /\ DOMAIN state' = DOMAIN state \cup {"suggested_hotels"}
            /\ \A k \in DOMAIN state : state'[k] = state[k]]_vars

C12_Witness ==
    /\ pc = "enter"
    /\ cur = "activity_finder"
    /\ Flag(state) = "True"
    /\ state # initial
    /\ \E r \in InitialRecords : r # initial /\ Flag(r) = "True"

\* The derived field each node owns.
Owned(node) ==
    CASE node = "visa_agent"        -> "visa_info"
      [] node = "weather_agent"     -> "weather_forecast"
      [] node = "itinerary_builder" -> "itinerary"
      [] node = "hotel_recommender" -> "suggested_hotels"
      [] node = "activity_finder"   -> "suggested_activities"

Written == UNION {writes[i].fields : i \in DOMAIN writes}

\* C13: every field a node returned is the derived field that node owns, no
\* field is returned by two node calls, no node is called twice, and the
\* derived fields in the record are exactly the ones written so far.
C13_SingleWriter ==
    /\ \A i \in DOMAIN writes :
            /\ writes[i].fields \subseteq DerivedFields
            /\ writes[i].fields \subseteq {Owned(writes[i].node)}
    /\ \A i, j \in DOMAIN writes :
            i # j =>
                /\ writes[i].fields \cap writes[j].fields = {}
                /\ writes[i].node # writes[j].node
    /\ DOMAIN state \cap DerivedFields = Written

C13_Witness ==
    /\ pc = "done"
    /\ Len(writes) = Cardinality(Nodes)
    /\ Written = DerivedFields

\* C14: every key of the initial record (the input fields and the control
\* flag) is in the record with its initial value, the control key is never
\* added, and a step that merges a node's result leaves every field the node
\* did not return as it was.
C14_InputsUnchanged ==
    /\ [](/\ \A k \in DOMAIN initial : k \in DOMAIN state /\ state[k] = initial[k]
          /\ DOMAIN state \cap (InputFields \cup {ControlField}) = DOMAIN initial)
    /\ [][writes' # writes =>
            \A k \in DOMAIN state :
                k \notin writes'[Len(writes')].fields =>
                    k \in DOMAIN state' /\ state'[k] = state[k]]_vars

C14_Witness ==
    /\ pc = "done"
    /\ Len(writes) = Cardinality(Nodes)
    /\ \A k \in InputFields \cup {ControlField} : state[k] = initial[k]

\* C15: every mapping a node returned, generated or degraded, contains the
\* field the node owns, and the record holds it from then on.
C15_OwnedFieldReturned ==
    \A i \in DOMAIN writes :
        /\ Owned(writes[i].node) \in writes[i].fields
        /\ Owned(writes[i].node) \in DOMAIN state

C15_Witness ==
    /\ last_call.node = "hotel_recommender"
    /\ last_call.hresp = "no_client"
    /\ writes[Len(writes)].node = "hotel_recommender"
    /\ IsPlaceholder(state["suggested_hotels"])
    /\ WeatherDegraded

\* The acquisition of the current node has run off the candidate list.
AcquisitionExhausted == pc = "probe" /\ Exhausted(model_idx)

\* C16: when the acquisition of a node ends in exhaustion the next step raises
\* RuntimeError out of the node and of run_travel_planning, with the record as
\* it was; after an exception escaped, nothing happens any more: no node is
\* called, no field is written, and the run never returns a record.
C16_ExhaustionPropagates ==
    /\ [][AcquisitionExhausted =>
            /\ pc' = "raised"
            /\ error' = "RuntimeError"
            /\ <<state, visited, writes, cur>>' = <<state, visited, writes, cur>>]_vars
    /\ [][pc = "raised" => UNCHANGED vars]_vars
    /\ [](error # "none" =>
            /\ pc = "raised"
            /\ visited[Len(visited)] = cur
            /\ Owned(cur) \notin DOMAIN state)

C16_Witness ==
    /\ pc = "raised"
    /\ error = "RuntimeError"
    /\ cur = "hotel_recommender"
    /\ visited = MainPath
    /\ llm = NoLLM

\* The hotel-listing request of the last call raised or returned no hotel.
HotelLookupFailed ==
    /\ last_call.node = "hotel_recommender"
    /\ last_call.hresp \in {"error", "empty"}

HotelsUnavailable ==
    <<"Hotel recommendations temporarily unavailable. Please try again later. (Error: ",
      "InvokeError", ")">>

\* C17 as stated: a hotel_recommender call whose listing lookup failed has
\* returned, not raised, with a placeholder in suggested_hotels.
C17_HotelLookupPlaceholder ==
    HotelLookupFailed =>
        /\ error = "none"
        /\ "suggested_hotels" \in DOMAIN state
        /\ IsPlaceholder(state["suggested_hotels"])

\* C17 amended: a hotel_recommender call whose listing lookup failed has
\* returned, not raised, and the run goes on to the router's choice; what it
\* wrote into suggested_hotels is the model's reply to a prompt without hotel
\* data (a reply that may be empty) or, when the model call failed, the
\* "temporarily unavailable" placeholder.
C17_HotelLookupFailure ==
    HotelLookupFailed =>
        /\ error = "none"
        /\ pc \in {"enter", "done"}
        /\ cur = successor("hotel_recommender", state)
        /\ writes[Len(writes)] = [node |-> "hotel_recommender", fields |-> {"suggested_hotels"}]
        /\ state["suggested_hotels"] =
                IF last_call.gen.ok THEN last_call.gen.content ELSE HotelsUnavailable

C17_Witness ==
    /\ HotelLookupFailed
    /\ last_call.hresp = "error"
    /\ pc = "enter"
    /\ cur = "activity_finder"
    /\ state["suggested_hotels"] = <<"LLM reply">>

\* The kind of message a text is: a reply of the model, or the placeholder
\* identified by its opening words.
Category(text) == IF text \in Replies THEN "generated" ELSE text[1]

HotelClientFailed ==
    /\ last_call.node = "hotel_recommender"
    /\ last_call.hresp = "no_client"

\* C18 as stated: after a call with an upstream source unreachable, a second
\* call on the record with the same source unreachable returns, whatever the
\* model does, a placeholder of the category of the one the first call wrote.
C18_SameCategory ==
    /\ WeatherLookupFailed =>
        \A gen \in GenOutcomes :
            LET again == weather_agent(state, last_call.geo, last_call.wresp, gen)
            IN  /\ again.kind = "return"
                /\ IsPlaceholder(again.update["weather_forecast"])
                /\ Category(again.update["weather_forecast"])
                        = Category(state["weather_forecast"])
    /\ HotelClientFailed =>
            /\ hotel_client_failed.kind = "return"
            /\ IsPlaceholder(hotel_client_failed.update["suggested_hotels"])
            /\ Category(hotel_client_failed.update["suggested_hotels"])
                    = Category(state["suggested_hotels"])
    /\ HotelLookupFailed =>
        \A gen \in GenOutcomes :
            LET again == hotel_recommender(state, last_call.hresp, gen)
            IN  /\ again.kind = "return"
                /\ IsPlaceholder(again.update["suggested_hotels"])
                /\ Category(again.update["suggested_hotels"])
                        = Category(state["suggested_hotels"])

\* C18 amended: after a weather_agent call whose lookup failed, or a
\* hotel_recommender call without Amadeus client, a second call on the record
\* with the same failure returns, whatever the model does, the very placeholder
\* the first call wrote; after a hotel_recommender call whose listing lookup
\* failed, a second call returns too, with the same text when the model call
\* has the same outcome, and with a text of the same category exactly when the
\* model call succeeds both times or fails both times.
C18_DegradedIdempotent ==
    /\ WeatherLookupFailed =>
        /\ error = "none"
        /\ WeatherDegraded
        /\ \A gen \in GenOutcomes :
                weather_agent(state, last_call.geo, last_call.wresp, gen)
                    = Return([weather_forecast |-> state["weather_forecast"]])
    /\ HotelClientFailed =>
            /\ error = "none"
            /\ "suggested_hotels" \in DOMAIN state
            /\ IsPlaceholder(state["suggested_hotels"])
            /\ hotel_client_failed = Return([suggested_hotels |-> state["suggested_hotels"]])
    /\ HotelLookupFailed =>
        /\ error = "none"
        /\ "suggested_hotels" \in DOMAIN state
        /\ \A gen \in GenOutcomes :
            LET again == hotel_recommender(state, last_call.hresp, gen)
            IN  /\ again.kind = "return"
                /\ DOMAIN again.update = {"suggested_hotels"}
                /\ (gen = last_call.gen =>
                        again.update["suggested_hotels"] = state["suggested_hotels"])
                /\ (Category(again.update["suggested_hotels"])
                        = Category(state["suggested_hotels"])) <=> (gen.ok <=> last_call.gen.ok)

C18_Witness ==
    /\ WeatherLookupFailed
    /\ last_call.geo.kind = "error"
    /\ last_call.gen.ok
    /\ Category(state["weather_forecast"]) = "Unable to get weather data for "

\* The run is over: the record was returned, or an exception escaped.
Terminal == pc \in {"done", "raised"}

NoRepeat(seq) == \A i, j \in DOMAIN seq : i # j => seq[i] # seq[j]

\* C19: at every moment at most 5 nodes have been executed, none of them
\* twice; every run ends, and a run in which every node call returns ends by
\* returning the record.
C19_Terminates ==
    /\ [](/\ Cardinality(Nodes) = 5
          /\ Len(visited) <= Cardinality(Nodes)
          /\ NoRepeat(visited))
    /\ <>Terminal
    /\ ([](pc # "raised") => <>(pc = "done" /\ cur = END))

C19_Witness ==
    /\ pc = "done"
    /\ cur = END
    /\ Len(visited) = 5
    /\ NoRepeat(visited)
    /\ error = "none"

\* The current node's function has read the record: its reads precede get_llm
\* (in hotel_recommender they follow the construction of the client).
HasRead == pc \in {"get_llm", "probe", "body"}

Owner(field) == CHOOSE n \in Nodes : Owned(n) = field

Position(node) == CHOOSE i \in DOMAIN FullPath : FullPath[i] = node

\* C20: every derived field the running node has read was returned before, in
\* this run, by the node that owns it, which ran earlier; in particular
\* itinerary when hotel_recommender reads it; and no node reads a field whose
\* owner comes later in the graph order, or its own.
C20_NoReadBeforeWrite ==
    /\ HasRead =>
        \A f \in Reads(cur) \cap DerivedFields :
            /\ f \in DOMAIN state
            /\ \E i \in DOMAIN writes : writes[i].node = Owner(f) /\ f \in writes[i].fields
            /\ \E j \in 1..(Len(visited) - 1) : visited[j] = Owner(f)
    /\ \A n \in Nodes : \A f \in Reads(n) \cap DerivedFields :
            Position(Owner(f)) < Position(n)
    /\ \A n \in Nodes : Reads(n) \subseteq InputFields \cup DerivedFields

C20_Witness ==
    /\ pc = "body"
    /\ cur = "hotel_recommender"
    /\ "itinerary" \in Reads(cur)
    /\ state["itinerary"] = <<"LLM reply">>
    /\ writes[Len(writes)].node = "itinerary_builder"

\* C21: with include_activities absent from the initial record, or None, the
\* router answers Terminal on the record at every moment, activity_finder is
\* never executed, and when hotel_recommender has returned the run is over.
C21_AbsentOrNoneIsFalse ==
    InitialFlag \in {"absent", "None"} =>
        /\ should_find_activities(state) = END
        /\ \A i \in DOMAIN visited : visited[i] # "activity_finder"
        /\ cur # "activity_finder"
        /\ "suggested_activities" \notin DOMAIN state
        /\ \A i \in DOMAIN writes :
                writes[i].node = "hotel_recommender" => pc = "done" /\ cur = END

C21_Witness ==
    /\ InitialFlag = "absent"
    /\ ControlField \notin DOMAIN state
    /\ pc = "done"
    /\ writes[Len(writes)].node = "hotel_recommender"

C21_NoneReached ==
    /\ InitialFlag = "None"
    /\ pc = "done"
    /\ writes[Len(writes)].node = "hotel_recommender"

\* The text weather_agent returns when `not lat or not lon`.
GeocodingFailure(destination) ==
    <<"Unable to get weather data for ", destination,
      ". Please check the destination name.">>

\* C22: a weather_agent call has written the geocoding-failure placeholder if
\* and only if the geocoder returned no coordinates (an error or no result).
C22_PlaceholderIffNoCoordinates ==
    last_call.node = "weather_agent" /\ error = "none" =>
        (state["weather_forecast"] = GeocodingFailure(state["destination"])
            <=> last_call.geo.kind # "result")

\* What the code does instead: the placeholder is written if and only if the
\* latitude or the longitude is None or 0.
C22_PlaceholderIffFalsy ==
    last_call.node = "weather_agent" /\ error = "none" =>
        (state["weather_forecast"] = GeocodingFailure(state["destination"])
            <=> \/ Not(get_coordinates(last_call.geo).lat)
                \/ Not(get_coordinates(last_call.geo).lon))

====
